---- MODULE Spec2Model ----
\* Verification model of the Fallen Knight player character
\* (src/src/models/entities/player.py) and its collaborators.
EXTENDS Integers, Sequences, FiniteSets, TLC

\* ---------------------------------------------------------------------
\* Bounds of the model
\* ---------------------------------------------------------------------
\* PlayerConstants.MAX_HEALTH, scaled down to a small number of hit points.
MAX_HEALTH == 3
\* Largest damage amount passed to take_damage.
MaxDamage == 4
\* Largest delta_time (in ticks) passed to update.
MaxDt == 2
\* Largest value of the millisecond clock (in clock units).
MaxTime == 4
\* Largest clock value at which Spec delivers a mouse click.
MaxCombatTime == 2
\* Largest number of frames an animation folder supplies.
MaxFrames == 2
\* Scene objects constructed in one run of the scene loop.
MaxInstances == 3
\* Largest magnitude of an amount passed to a resource method.
MaxAmount == 3
\* Coins the inventory is let grow to.
MaxCoins == 6
\* Entries of a dialog sequence.
MaxEntries == 2
\* Dialog sounds left playing that the overlay no longer refers to.
MaxStray == 2

\* ---------------------------------------------------------------------
\* Constants of src/core/constants.py (values scaled to the model's units)
\* ---------------------------------------------------------------------
\* DOUBLE_CLICK_THRESHOLD_MS, in clock units.
DOUBLE_CLICK_THRESHOLD_MS == 1
\* PlayerConstants.BLOCK_DAMAGE_REDUCTION as the fraction NUM / DEN.
BLOCK_DAMAGE_REDUCTION_NUM == 1
BLOCK_DAMAGE_REDUCTION_DEN == 2
\* Duration of the invulnerability countdown started by non-lethal damage.
INVULNERABILITY_DURATION == 2
\* Frame duration 1/fps of an animation, in ticks.
FRAME_DURATION == 2
\* PlayerConstants.MAX_MANA.
MAX_MANA == 4

\* ---------------------------------------------------------------------
\* Enumerations
\* ---------------------------------------------------------------------
IDLE == "IDLE"
WALK == "WALK"
RUN == "RUN"
ATTACK_LIGHT_1 == "ATTACK_LIGHT_1"
ATTACK_LIGHT_2 == "ATTACK_LIGHT_2"
ATTACK_HEAVY == "ATTACK_HEAVY"
BLOCK == "BLOCK"
HURT == "HURT"
DEATH == "DEATH"

PlayerState ==
  {IDLE, WALK, RUN, ATTACK_LIGHT_1, ATTACK_LIGHT_2, ATTACK_HEAVY, BLOCK, HURT, DEATH}

PlayerAction ==
  {"MOVE_LEFT", "MOVE_RIGHT", "JUMP", "SPRINT", "BLOCK", "ATTACK_LIGHT", "ATTACK_HEAVY"}

\* Mouse buttons delivered to handle_mouse_click (1 left, 2 middle, 3 right).
Buttons == {1, 2, 3}

Max(a, b) == IF a >= b THEN a ELSE b
Min(a, b) == IF a <= b THEN a ELSE b

\* The fields the operations read or the properties observe.  velocity.x,
\* acceleration.x, facing_left and image are outputs of _update_character
\* that no operation of Player reads; they are not carried in the state.
VARIABLES
  health,                 \* Character._health
  invulnerable,           \* Character._invulnerable
  invulnerable_timer,     \* Character._invulnerable_timer (ticks)
  on_ground,              \* Character.on_ground
  velocity_y,             \* Character.velocity.y  ("zero" or "jump")
  acceleration_y,         \* Character.acceleration.y ("zero" or "gravity")
  killed,                 \* sprite removed from its groups by kill()
  move_direction,         \* Player._move_direction
  is_sprinting,           \* Player._is_sprinting
  jump_requested,         \* Player._jump_requested
  is_blocking,            \* Player._is_blocking
  last_right_click_time,  \* Player._last_right_click_time
  current_state,          \* Player._current_state
  anim,                   \* AnimationSet: active state, frame index, elapsed
  num_frames,             \* frames per animation, fixed at construction
  now,                    \* the millisecond clock read by the caller
  on_death_calls,         \* history: number of _on_death invocations
  last,                   \* history: the operation applied last, its outcome
  run_pc,                 \* SceneManager.run: position in the loop
  current_scene_id,       \* SceneManager.run: local current_scene_id
  scene,                  \* SceneManager.run: local scene
  scene_cache,            \* SceneManager._scene_cache: <<id, instance>> entries
  instances,              \* scene objects constructed so far
  next_scene_id,          \* SceneManager.run: local next_scene_id
  exited,                 \* main() has run its finally block and returned
  current_level,          \* SceneManager._current_level
  saved_data,             \* SceneManager._saved_data (<<>> is None)
  save_file,              \* the file at config.SAVE_FILE
  config_saved,           \* config.save() was called
  new_game_fresh,         \* history: new_game served, nothing saved or loaded since
  coins,                  \* Player._coins
  mana,                   \* Player._mana
  resource_last,          \* history: the resource method called last, its result
  overlay_visible,        \* DialogOverlay._visible
  sequence,               \* DialogOverlay._sequence: entries' sound flags, cursor
  sound_channel,          \* DialogOverlay._current_sound_channel
  stray_sounds,           \* dialog sounds playing on channels no longer held
  dialog_last             \* history: the overlay operation applied last, its
                          \* result, the channel held before it

player_vars == <<health, invulnerable, invulnerable_timer, on_ground,
                 velocity_y, acceleration_y, killed, move_direction,
                 is_sprinting, jump_requested, is_blocking,
                 last_right_click_time, current_state, anim, num_frames, now,
                 on_death_calls, last>>

scene_vars == <<run_pc, current_scene_id, scene, scene_cache, instances,
                next_scene_id, exited, current_level, saved_data, save_file,
                config_saved, new_game_fresh>>

resource_vars == <<coins, mana, resource_last>>

dialog_vars == <<overlay_visible, sequence, sound_channel, stray_sounds,
                 dialog_last>>

\* what the operations of one component leave alone
outside_player == <<scene_vars, resource_vars, dialog_vars>>
outside_scene == <<player_vars, resource_vars, dialog_vars>>
outside_resources == <<player_vars, scene_vars, dialog_vars>>
outside_dialog == <<player_vars, scene_vars, resource_vars>>

vars == <<player_vars, scene_vars, resource_vars, dialog_vars>>

\* ---------------------------------------------------------------------
\* Animation / AnimationSet
\* ---------------------------------------------------------------------
\* loop flags with the hurt animation looping like the idle one
loop_with_hurt(s) == s \in {IDLE, WALK, RUN, BLOCK, HURT}

\* loop flag of the animation bound to each state (_load_animations)
loop(s) == s \in {IDLE, WALK, RUN, BLOCK}

\* AnimationSet.set_state: no-op if s is active, else switch and reset
set_state(a, s) ==
  IF a.state = s THEN a ELSE [state |-> s, index |-> 0, elapsed |-> 0]

\* AnimationSet.is_finished: non-looping and index at the last frame
is_finished(a, n) == ~loop(a.state) /\ a.index >= n - 1

\* AnimationSet.update: advance the active animation by dt ticks
animation_update(a, n, dt) ==
  LET e == a.elapsed + dt
      steps == e \div FRAME_DURATION
      i == IF loop(a.state) THEN (a.index + steps) % n
           ELSE Min(a.index + steps, n - 1)
  IN IF e >= FRAME_DURATION
       THEN [state |-> a.state, index |-> i, elapsed |-> e % FRAME_DURATION]
       ELSE [state |-> a.state, index |-> a.index, elapsed |-> e]

\* ---------------------------------------------------------------------
\* Player helpers
\* ---------------------------------------------------------------------
\* _can_attack that also admits BLOCK
can_attack_with_block(s) == s \in {IDLE, WALK, RUN, BLOCK}

\* Player._can_attack
can_attack(s) == s \in {IDLE, WALK, RUN}

\* an _enter_state that restarts the animation even when the state is active
enter_state_always_restart(cur, a, new) ==
  <<new, [state |-> new, index |-> 0, elapsed |-> 0]>>

\* Player._enter_state: <<new current_state, new animation set>>
enter_state(cur, a, new) ==
  IF cur = new THEN <<cur, a>> ELSE <<new, set_state(a, new)>>

\* a release that zeroes the movement whichever key is released
move_after_release_any(md, dir) == 0

\* handle_action, MOVE_LEFT / MOVE_RIGHT released: the movement is zeroed
\* only if the released direction dir is the active one
move_after_release(md, dir) == IF md # dir THEN md ELSE 0

\* a BLOCK press that leaves the pending jump alone
jump_after_block_press_kept(requested) == requested

\* handle_action, BLOCK pressed: _jump_requested = False
jump_after_block_press(requested) == FALSE

\* a jump test that forgets the block
jump_validated_while_blocking(requested, grounded, blocking) ==
  requested /\ grounded

\* _update_character: the pending jump is performed in this update
jump_validated(requested, grounded, blocking) ==
  requested /\ grounded /\ ~blocking

\* a grounded rule applied with the ground flag of before the jump
velocity_y_after_update_stale_ground(was_grounded, jump, vy) ==
  IF was_grounded THEN "zero" ELSE IF jump THEN "jump" ELSE vy

\* _update_character: velocity.y after the jump and the grounded rule
velocity_y_after_update(was_grounded, jump, vy) ==
  IF was_grounded /\ ~jump THEN "zero" ELSE IF jump THEN "jump" ELSE vy

\* random.choice over every attack state
light_attack_states_any_attack == {ATTACK_LIGHT_1, ATTACK_LIGHT_2, ATTACK_HEAVY}

\* the two light-attack variants random.choice draws from
light_attack_states == {ATTACK_LIGHT_1, ATTACK_LIGHT_2}

\* the double-click test of handle_mouse_click
is_double_click(t, stamp) == t - stamp <= DOUBLE_CLICK_THRESHOLD_MS

\* a firing right-click that records its own time instead of resetting
fired_stamp_keep(t) == t

\* the timestamp stored by a right-click that fires a heavy attack
fired_stamp(t) == 0

\* the reduction without its floor of 1
blocked_amount_no_floor(amount) ==
  (amount * BLOCK_DAMAGE_REDUCTION_NUM) \div BLOCK_DAMAGE_REDUCTION_DEN

\* int(amount * BLOCK_DAMAGE_REDUCTION) floored at 1 (amount >= 0)
blocked_amount(amount) ==
  Max(1, (amount * BLOCK_DAMAGE_REDUCTION_NUM) \div BLOCK_DAMAGE_REDUCTION_DEN)

\* an _on_death hook that does not enter DEATH
on_death_no_transition(cur, a) == <<cur, a>>

\* Player._on_death: <<new current_state, new animation set>>
on_death(cur, a) == enter_state(cur, a, DEATH)

\* Character.take_damage(amount) on (health h, invulnerable inv, timer tm)
character_take_damage(h, inv, tm, amount) ==
  IF inv
    THEN [health |-> h, invulnerable |-> inv, timer |-> tm,
          died |-> FALSE, result |-> FALSE]
    ELSE LET h2 == Max(0, h - amount)
         IN IF h > 0 /\ h2 = 0
              THEN [health |-> h2, invulnerable |-> inv, timer |-> tm,
                    died |-> TRUE, result |-> TRUE]
            ELSE IF h > 0
              THEN [health |-> h2, invulnerable |-> TRUE,
                    timer |-> INVULNERABILITY_DURATION,
                    died |-> FALSE, result |-> TRUE]
            ELSE [health |-> h2, invulnerable |-> inv, timer |-> tm,
                  died |-> FALSE, result |-> FALSE]

\* a take_damage whose HURT does not interrupt attacks or BLOCK
after_damage_no_interrupt(cur, a, applied, alive) ==
  IF applied /\ alive /\ can_attack(cur)
    THEN enter_state(cur, a, HURT) ELSE <<cur, a>>

\* the tail of Player.take_damage: HURT when the damage was applied and the
\* player is still alive
after_damage(cur, a, applied, alive) ==
  IF applied /\ alive THEN enter_state(cur, a, HURT) ELSE <<cur, a>>

\* an update whose locomotion case ignores the sprint key
update_state_machine_no_sprint(cur, a, n, move, sprint) ==
  IF cur = DEATH
    THEN <<cur, a, is_finished(a, n)>>
  ELSE IF cur \in {ATTACK_LIGHT_1, ATTACK_LIGHT_2, ATTACK_HEAVY, HURT}
    THEN (IF is_finished(a, n)
            THEN <<enter_state(cur, a, IDLE)[1], enter_state(cur, a, IDLE)[2],
                   FALSE>>
          ELSE <<cur, a, FALSE>>)
  ELSE IF cur = BLOCK
    THEN <<cur, a, FALSE>>
  ELSE LET desired == IF move # 0 THEN WALK ELSE IDLE
       IN <<enter_state(cur, a, desired)[1], enter_state(cur, a, desired)[2],
            FALSE>>

\* an update that resolves a finished attack or hurt straight to locomotion
update_state_machine_skip_idle(cur, a, n, move, sprint) ==
  IF cur = DEATH
    THEN <<cur, a, is_finished(a, n)>>
  ELSE IF cur = BLOCK
    THEN <<cur, a, FALSE>>
  ELSE IF cur \in {ATTACK_LIGHT_1, ATTACK_LIGHT_2, ATTACK_HEAVY, HURT}
            /\ ~is_finished(a, n)
    THEN <<cur, a, FALSE>>
  ELSE LET desired == IF move # 0
                        THEN (IF sprint THEN RUN ELSE WALK)
                      ELSE IDLE
       IN <<enter_state(cur, a, desired)[1], enter_state(cur, a, desired)[2],
            FALSE>>

\* a state machine without the BLOCK case: locomotion overrides BLOCK
update_state_machine_no_block_case(cur, a, n, move, sprint) ==
  IF cur \in {ATTACK_LIGHT_1, ATTACK_LIGHT_2, ATTACK_HEAVY, HURT}
    THEN IF is_finished(a, n)
           THEN enter_state(cur, a, IDLE) \o <<FALSE>>
           ELSE <<cur, a, FALSE>>
  ELSE IF cur = DEATH
    THEN <<cur, a, is_finished(a, n)>>
  ELSE LET desired == IF move # 0
                        THEN (IF sprint THEN RUN ELSE WALK)
                        ELSE IDLE
       IN enter_state(cur, a, desired) \o <<FALSE>>

\* Player._update_state_machine: <<new current_state, new animation set, kill()>>
update_state_machine(cur, a, n, move, sprint) ==
  IF cur \in {ATTACK_LIGHT_1, ATTACK_LIGHT_2, ATTACK_HEAVY, HURT}
    THEN IF is_finished(a, n)
           THEN enter_state(cur, a, IDLE) \o <<FALSE>>
           ELSE <<cur, a, FALSE>>
  ELSE IF cur = DEATH
    THEN <<cur, a, is_finished(a, n)>>
  ELSE IF cur = BLOCK
    THEN <<cur, a, FALSE>>
  ELSE LET desired == IF move # 0
                        THEN (IF sprint THEN RUN ELSE WALK)
                        ELSE IDLE
       IN enter_state(cur, a, desired) \o <<FALSE>>

\* ---------------------------------------------------------------------
\* SceneManager: ids, tokens, save file
\* ---------------------------------------------------------------------
\* Python's None, as a scene id, a token or a constructor argument
None == "None"

\* keys of _scene_classes
RegisteredScenes == {"menu", "settings", "game", "dialog"}

\* ids whose instance _get_scene keeps in _scene_cache
CachedScenes == {"menu", "settings"}

\* ids _get_scene resolves itself
SpecialScenes == {"new_game", "continue"}

STARTING_LEVEL == "tutorial"

\* what a scene's run() may return: nothing, the transition tokens, a
\* registered id and an id nobody registered
Tokens == {None, "", "exit", "menu", "settings", "back", "new_game",
           "continue", "game", "game_over", "level_complete", "dialog",
           "credits"}

\* the scene object bound to the local `scene`: its class and the keyword
\* arguments it was constructed with
\* and its identity: the n-th object constructed in this run
scene_object(n, cls, level_id, data, dialog_id, next_scene) ==
  [instance |-> n, cls |-> cls, level_id |-> level_id, saved_data |-> data,
   dialog_id |-> dialog_id, next_scene |-> next_scene]

NoScene == scene_object(0, None, None, <<>>, None, None)

\* a cache that keeps every scene it is asked for
is_cached_id_any(scene_id) == TRUE

\* SceneManager._get_scene: the ids served from _scene_cache
is_cached_id(scene_id) == scene_id \in CachedScenes

\* scene_id in self._scene_cache
cache_has(cache, scene_id) == \E e \in cache : e[1] = scene_id

\* the scene object self._scene_cache[scene_id], by its identity and class
cache_get(cache, scene_id) ==
  LET e == CHOOSE e \in cache : e[1] = scene_id
  IN scene_object(e[2], e[3], None, <<>>, None, None)

\* float(token): <<TRUE, value in tenths>>, or <<FALSE, 0>> for ValueError
parse_float(tok) ==
  IF tok = "1.5" THEN <<TRUE, 15>>
  ELSE IF tok = "2.5" THEN <<TRUE, 25>>
  ELSE IF tok = "8.5" THEN <<TRUE, 85>>
  ELSE IF tok = "60" THEN <<TRUE, 600>>
  ELSE IF tok = "80" THEN <<TRUE, 800>>
  ELSE <<FALSE, 0>>

\* int(token): <<TRUE, value>>, or <<FALSE, 0>> for ValueError (a token with
\* a fraction is no integer literal)
parse_int(tok) ==
  IF tok = "60" THEN <<TRUE, 60>>
  ELSE IF tok = "80" THEN <<TRUE, 80>>
  ELSE <<FALSE, 0>>

\* the save file: absent, or the whitespace-separated fields of its content
NoFile == [exists |-> FALSE, data |-> <<>>]
FileOf(data) == [exists |-> TRUE, data |-> data]

XTokens == {"1.5", "abc"}
YTokens == {"2.5"}
HealthTokens == {"80", "60", "8.5"}
LevelTokens == {STARTING_LEVEL, "level2"}

SaveFiles ==
  {NoFile, FileOf(<<>>), FileOf(<<"1.5">>), FileOf(<<"1.5", "2.5">>)}
  \cup {FileOf(<<x, y, h>>) : x \in XTokens, y \in YTokens, h \in HealthTokens}
  \cup {FileOf(<<x, y, h, l>>) :
          x \in XTokens, y \in YTokens, h \in HealthTokens, l \in LevelTokens}

\* the three leading fields parse as float, float, int
parses(data) ==
  parse_float(data[1])[1] /\ parse_float(data[2])[1] /\ parse_int(data[3])[1]

\* SceneManager._load_saved_game: <<_saved_data, _current_level>> after it
load_saved_game(file, data, level) ==
  IF ~file.exists THEN <<data, level>>
  ELSE IF Len(file.data) < 3 THEN <<data, level>>
  ELSE IF ~parses(file.data) THEN <<(<<>>), level>>
  ELSE << <<parse_float(file.data[1])[2], parse_float(file.data[2])[2],
            parse_int(file.data[3])[2]>>,
          IF Len(file.data) >= 4 THEN file.data[4] ELSE level >>

\* a lookup that falls back to the menu for an id nobody registered
scene_class_with_fallback(scene_id) ==
  IF scene_id \in RegisteredScenes THEN scene_id ELSE "menu"

\* SceneManager._create_scene: self._scene_classes.get(scene_id)
scene_class(scene_id) ==
  IF scene_id \in RegisteredScenes THEN scene_id ELSE None

\* a translation that sends `back` to the scene it came from
handle_transition_back_to_source(from_scene, to_scene) ==
  IF to_scene \in {None, ""} THEN None
  ELSE IF to_scene = "exit" THEN None
  ELSE IF to_scene = "back" THEN from_scene
  ELSE IF to_scene \in {"game_over", "level_complete"} THEN "menu"
  ELSE to_scene

\* SceneManager._handle_transition
handle_transition(from_scene, to_scene) ==
  IF to_scene \in {None, ""} THEN None
  ELSE IF to_scene = "exit" THEN None
  ELSE IF to_scene \in {"back", "game_over", "level_complete"} THEN "menu"
  ELSE to_scene

\* ---------------------------------------------------------------------
\* DialogSequence and the mixer, as the overlay uses them
\* ---------------------------------------------------------------------
\* DialogOverlay._sequence is None
NoSequence == [sounds |-> <<>>, cursor |-> 0]

\* a new DialogSequence: for each entry whether it names a sound, and the
\* cursor on the first entry
Sequences ==
  {[sounds |-> ss, cursor |-> 1] :
     ss \in UNION {[1..n -> BOOLEAN] : n \in 1..MaxEntries}}

\* DialogSequence.is_finished: the cursor is on the last entry
sequence_is_finished(seq) == seq.cursor >= Len(seq.sounds)

\* DialogSequence.advance: one entry forward unless finished
sequence_advance(seq) ==
  IF sequence_is_finished(seq) THEN seq
  ELSE [seq EXCEPT !.cursor = seq.cursor + 1]

\* DialogSequence.skip_to_end: the cursor jumps to the last entry
skip_to_end(seq) == [seq EXCEPT !.cursor = Len(seq.sounds)]

\* DialogSequence.current_entry.sound is set
entry_has_sound(seq) == seq.sounds[seq.cursor]

\* the overlay's sound state <<channel, stray>>: the channel it holds is
\* "none" (None), "busy" (playing) or "idle" (played out)
\* DialogOverlay._stop_current_sound
stop_current_sound(snd) == <<"none", snd[2]>>

\* DialogOverlay._play_sound; what pygame does is the outcome: the sound
\* plays on a channel, Sound() raises pg.error, or play() finds no channel
play_sound(snd, outcome) ==
  LET left == IF snd[1] = "busy" THEN snd[2] + 1 ELSE snd[2]
  IN IF outcome = "plays" THEN <<"busy", left>>
     ELSE IF outcome = "no_channel" THEN <<"none", left>>
     ELSE snd

PlayOutcomes == {"plays", "error", "no_channel"}

\* dialog sounds audible at once
Playing == stray_sounds + (IF sound_channel = "busy" THEN 1 ELSE 0)

\* a close that hides the overlay and keeps its sequence
sequence_after_close_kept(seq) == seq

\* DialogOverlay._advance_dialog on a finished sequence: self._sequence = None
sequence_after_close(seq) == NoSequence

\* DialogOverlay._advance_dialog with a sequence set:
\* <<_visible, _sequence, <<channel, stray>> >>
advance_dialog(vis, seq, snd, outcome) ==
  LET stopped == stop_current_sound(snd)
  IN IF sequence_is_finished(seq)
       THEN <<FALSE, sequence_after_close(seq), stop_current_sound(stopped)>>
     ELSE LET nxt == sequence_advance(seq)
          IN <<vis, nxt,
               IF entry_has_sound(nxt) THEN play_sound(stopped, outcome)
               ELSE stopped>>

\* DialogRenderer.is_finished
renderer_is_finished ==
  sequence = NoSequence \/ sequence_is_finished(sequence)

\* ---------------------------------------------------------------------
\* Initial state: Player.__init__, SceneManager.__init__ and the head of run
\* ---------------------------------------------------------------------
PlayerInit ==
  /\ health = MAX_HEALTH
  /\ invulnerable = FALSE
  /\ invulnerable_timer = 0
  /\ on_ground = FALSE
  /\ velocity_y = "zero"
  /\ acceleration_y = "zero"
  /\ killed = FALSE
  /\ move_direction = 0
  /\ is_sprinting = FALSE
  /\ jump_requested = FALSE
  /\ is_blocking = FALSE
  /\ last_right_click_time = 0
  /\ current_state = IDLE
  /\ num_frames \in 1..MaxFrames
  /\ anim = [state |-> IDLE, index |-> 0, elapsed |-> 0]
  /\ now = 0
  /\ on_death_calls = 0
  /\ last = [op |-> "init", res |-> "none", prev |-> "none"]

SceneManagerInit ==
  /\ run_pc = "get_scene"
  /\ current_scene_id = "menu"
  /\ scene = NoScene
  /\ scene_cache = {}
  /\ instances = 0
  /\ next_scene_id = None
  /\ exited = FALSE
  /\ current_level = STARTING_LEVEL
  /\ saved_data = <<>>
  /\ config_saved = FALSE
  /\ new_game_fresh = FALSE

\* Player.__init__: the resources
ResourcesInit ==
  /\ coins = 0
  /\ mana = MAX_MANA
  /\ resource_last = [op |-> "init", ok |-> TRUE]

\* DialogOverlay.__init__
OverlayInit ==
  /\ overlay_visible = FALSE
  /\ sequence = NoSequence
  /\ sound_channel = "none"
  /\ stray_sounds = 0
  /\ dialog_last = [op |-> "init", consumed |-> FALSE, held |-> "none"]

\* the player under test; no save file is involved
Init ==
  /\ PlayerInit
  /\ SceneManagerInit /\ save_file = NoFile
  /\ ResourcesInit
  /\ OverlayInit

\* the scene loop, started with whatever an earlier session left on disk
SceneInit ==
  /\ PlayerInit /\ num_frames = 1
  /\ SceneManagerInit
  /\ save_file \in SaveFiles
  /\ ResourcesInit
  /\ OverlayInit

\* ---------------------------------------------------------------------
\* History tags (what the last operation did; read by no operation)
\* ---------------------------------------------------------------------
\* outcome of a mouse click received in state cur that left the state at post
click_outcome(button, cur, post) ==
  IF ~can_attack(cur) THEN "ignored"
  ELSE IF button = 1 THEN "light"
  ELSE IF button = 3 THEN (IF post = ATTACK_HEAVY THEN "fired" ELSE "recorded")
  ELSE "other"

\* the cases of handle_action the properties single out
action_outcome(action, pressed, md, requested) ==
  IF action = "BLOCK" /\ pressed /\ requested THEN "jump_cancelled"
  ELSE IF action = "MOVE_LEFT" /\ ~pressed /\ md = 1 THEN "inactive_release"
  ELSE IF action = "MOVE_RIGHT" /\ ~pressed /\ md = -1 THEN "inactive_release"
  ELSE "none"

\* outcome of take_damage: r is the result of Character.take_damage
damage_outcome(r, blocking, amount) ==
  IF ~r.result THEN "ignored"
  ELSE IF r.died THEN "lethal"
  ELSE IF blocking /\ amount >= 1 THEN "chip"
  ELSE "hurt"

\* ---------------------------------------------------------------------
\* Operations
\* ---------------------------------------------------------------------
\* Player.handle_action(action, pressed)
handle_action(action, pressed) ==
  LET blockEnter == IF pressed
                      THEN enter_state(current_state, anim, BLOCK)
                    ELSE IF current_state = BLOCK
                      THEN enter_state(current_state, anim, IDLE)
                    ELSE <<current_state, anim>>
  IN
  /\ move_direction' =
       IF action = "MOVE_LEFT"
         THEN (IF pressed THEN -1 ELSE move_after_release(move_direction, -1))
       ELSE IF action = "MOVE_RIGHT"
         THEN (IF pressed THEN 1 ELSE move_after_release(move_direction, 1))
       ELSE move_direction
  /\ jump_requested' =
       IF action = "JUMP" /\ pressed /\ ~is_blocking /\ on_ground THEN TRUE
       ELSE IF action = "BLOCK" /\ pressed
         THEN jump_after_block_press(jump_requested)
       ELSE jump_requested
  /\ is_sprinting' =
       IF action = "SPRINT"
            /\ ~(action = "JUMP" /\ pressed /\ ~is_blocking /\ on_ground)
         THEN pressed ELSE is_sprinting
  /\ is_blocking' =
       IF action \in {"BLOCK", "ATTACK_LIGHT", "ATTACK_HEAVY"}
         THEN pressed ELSE is_blocking
  /\ current_state' = IF action = "BLOCK" THEN blockEnter[1] ELSE current_state
  /\ anim' = IF action = "BLOCK" THEN blockEnter[2] ELSE anim
  /\ last' = [op |-> "handle_action",
              res |-> action_outcome(action, pressed, move_direction,
                                     jump_requested),
              prev |-> "none"]
  /\ UNCHANGED outside_player
  /\ UNCHANGED <<health, invulnerable, invulnerable_timer, on_ground,
                 velocity_y, acceleration_y, killed,
                 last_right_click_time, num_frames, now, on_death_calls>>

\* Player.handle_mouse_click(button, current_time)
handle_mouse_click(button, t, choice) ==
  LET fire == is_double_click(t, last_right_click_time)
      target == IF button = 1 THEN choice
                ELSE IF button = 3 /\ fire THEN ATTACK_HEAVY
                ELSE current_state
      entered == IF can_attack(current_state)
                   THEN enter_state(current_state, anim, target)
                   ELSE <<current_state, anim>>
  IN
  /\ current_state' = entered[1]
  /\ anim' = entered[2]
  /\ last_right_click_time' =
       IF can_attack(current_state) /\ button = 3
         THEN (IF fire THEN fired_stamp(t) ELSE t)
         ELSE last_right_click_time
  /\ now' = t
  /\ last' = [op |-> "handle_mouse_click",
              res |-> click_outcome(button, current_state, entered[1]),
              prev |-> IF button = 3 /\ last.op = "handle_mouse_click"
                            /\ last.res \in {"recorded", "fired"}
                         THEN last.res ELSE "none"]
  /\ UNCHANGED outside_player
  /\ UNCHANGED <<health, invulnerable, invulnerable_timer, on_ground,
                 velocity_y, acceleration_y, killed,
                 move_direction, is_sprinting, jump_requested, is_blocking,
                 num_frames, on_death_calls>>

\* Player.take_damage(amount)
take_damage(amount) ==
  LET amt == IF is_blocking THEN blocked_amount(amount) ELSE amount
      r == character_take_damage(health, invulnerable, invulnerable_timer, amt)
      d == IF r.died THEN on_death(current_state, anim)
           ELSE <<current_state, anim>>
      f == after_damage(d[1], d[2], r.result, r.health > 0)
  IN
  /\ health' = r.health
  /\ invulnerable' = r.invulnerable
  /\ invulnerable_timer' = r.timer
  /\ on_death_calls' = IF r.died THEN on_death_calls + 1 ELSE on_death_calls
  /\ current_state' = f[1]
  /\ anim' = f[2]
  /\ last' = [op |-> "take_damage",
              res |-> damage_outcome(r, is_blocking, amount),
              prev |-> "none"]
  /\ UNCHANGED outside_player
  /\ UNCHANGED <<on_ground, velocity_y, acceleration_y, killed,
                 move_direction, is_sprinting, jump_requested, is_blocking,
                 last_right_click_time, num_frames, now>>

\* Player.update(delta_time), with _update_character
update(dt) ==
  LET counting == invulnerable /\ invulnerable_timer > 0
      tm == IF counting THEN invulnerable_timer - dt ELSE invulnerable_timer
      expired == counting /\ tm <= 0
      jump == jump_validated(jump_requested, on_ground, is_blocking)
      grounded == on_ground /\ ~jump
      sm == update_state_machine(current_state, anim, num_frames,
                                 move_direction, is_sprinting)
  IN
  /\ invulnerable' = IF expired THEN FALSE ELSE invulnerable
  /\ invulnerable_timer' = IF expired THEN 0 ELSE tm
  /\ on_ground' = grounded
  /\ jump_requested' = IF jump THEN FALSE ELSE jump_requested
  /\ velocity_y' = velocity_y_after_update(on_ground, jump, velocity_y)
  /\ acceleration_y' = IF grounded THEN "zero" ELSE "gravity"
  /\ current_state' = sm[1]
  /\ anim' = animation_update(sm[2], num_frames, dt)
  /\ killed' = (killed \/ sm[3])
  /\ last' = [op |-> "update", res |-> "none", prev |-> "none"]
  /\ UNCHANGED outside_player
  /\ UNCHANGED <<health, move_direction, is_sprinting, is_blocking,
                 last_right_click_time, num_frames, now, on_death_calls>>

\* The game scene's collision resolution sets Character.on_ground
ground_contact(b) ==
  /\ on_ground' = b
  /\ last' = [op |-> "ground_contact", res |-> "none",
              prev |-> "none"]
  /\ UNCHANGED outside_player
  /\ UNCHANGED <<health, invulnerable, invulnerable_timer, velocity_y,
                 acceleration_y, killed, move_direction,
                 is_sprinting, jump_requested, is_blocking,
                 last_right_click_time, current_state, anim, num_frames, now,
                 on_death_calls>>

\* ---------------------------------------------------------------------
\* SceneManager.run, one action per step of the loop
\* ---------------------------------------------------------------------
\* a cleanup that leaves the cached scenes in place
cache_after_cleanup_kept(cache) == cache

\* SceneManager._cleanup: self._scene_cache.clear()
cache_after_cleanup(cache) == {}

\* the loop condition: current_scene_id and current_scene_id != "exit"
loop_continues(scene_id) == scene_id \notin {None, "", "exit"}

\* run: scene = self._get_scene(current_scene_id), and the raise that follows
\* a missing scene; ok tells whether the scene constructor returns
get_scene(ok) ==
  LET id == current_scene_id
      held == IF id = "new_game" THEN <<(<<>>), STARTING_LEVEL>>
              ELSE IF id = "continue"
                THEN load_saved_game(save_file, saved_data, current_level)
              ELSE <<saved_data, current_level>>
      cached == is_cached_id(id) /\ cache_has(scene_cache, id)
      n == instances + 1
      cls == IF id = "new_game" THEN scene_class("dialog")
             ELSE IF id \in {"continue", "game"} THEN scene_class("game")
             ELSE scene_class(id)
      made == IF id = "new_game"
                THEN scene_object(n, cls, None, <<>>, "introduction", "game")
              ELSE IF id \in {"continue", "game"}
                THEN scene_object(n, cls, held[2], held[1], None, None)
              ELSE scene_object(n, cls, None, <<>>, None, None)
  IN
  /\ run_pc = "get_scene"
  /\ loop_continues(id)
  /\ saved_data' = held[1]
  /\ current_level' = held[2]
  /\ new_game_fresh' = IF id = "new_game" THEN TRUE
                       ELSE IF id = "continue" THEN FALSE
                       ELSE new_game_fresh
  /\ IF cached
       THEN /\ scene' = cache_get(scene_cache, id)
            /\ run_pc' = "scene_run"
            /\ UNCHANGED <<scene_cache, instances>>
     ELSE IF cls = None
       THEN /\ scene' = NoScene
            /\ run_pc' = "SceneError"
            /\ UNCHANGED <<scene_cache, instances>>
     ELSE IF ~ok
       THEN /\ run_pc' = "SceneError"
            /\ UNCHANGED <<scene, scene_cache, instances>>
     ELSE /\ instances < MaxInstances
          /\ scene' = made
          /\ instances' = n
          /\ run_pc' = "scene_run"
          /\ scene_cache' = IF is_cached_id(id)
                              THEN scene_cache \cup {<<id, n, cls>>}
                            ELSE scene_cache
  /\ UNCHANGED <<current_scene_id, next_scene_id, exited, save_file,
                 config_saved>>
  /\ UNCHANGED outside_scene

\* run: next_scene_id = scene.run() returns the token tok, then
\* current_scene_id = self._handle_transition(current_scene_id, next_scene_id)
scene_returns(tok) ==
  /\ run_pc = "scene_run"
  /\ next_scene_id' = tok
  /\ current_scene_id' = handle_transition(current_scene_id, tok)
  /\ run_pc' = "get_scene"
  /\ UNCHANGED <<scene, scene_cache, instances, exited, current_level,
                 saved_data, save_file, config_saved, new_game_fresh>>
  /\ UNCHANGED outside_scene

\* run: scene.run() raises
scene_raises ==
  /\ run_pc = "scene_run"
  /\ run_pc' = "Exception"
  /\ UNCHANGED <<current_scene_id, scene, scene_cache, instances,
                 next_scene_id, exited, current_level, saved_data, save_file,
                 config_saved, new_game_fresh>>
  /\ UNCHANGED outside_scene

\* run: the loop ends and self._cleanup() runs
cleanup ==
  /\ run_pc = "get_scene"
  /\ ~loop_continues(current_scene_id)
  /\ scene_cache' = cache_after_cleanup(scene_cache)
  /\ config_saved' = TRUE
  /\ run_pc' = "returned"
  /\ UNCHANGED <<current_scene_id, scene, instances, next_scene_id, exited,
                 current_level, saved_data, save_file, new_game_fresh>>
  /\ UNCHANGED outside_scene

\* while a scene runs the save file is written, replaced or removed
write_save(file) ==
  /\ run_pc = "scene_run"
  /\ save_file' = file
  /\ new_game_fresh' = FALSE
  /\ UNCHANGED <<run_pc, current_scene_id, scene, scene_cache, instances,
                 next_scene_id, exited, current_level, saved_data,
                 config_saved>>
  /\ UNCHANGED outside_scene

\* main: run() has returned or raised; the except clauses catch GameError
\* and Exception, and the finally block saves the configuration and quits
main_exit ==
  /\ run_pc \in {"returned", "SceneError", "Exception"}
  /\ ~exited
  /\ config_saved' = TRUE
  /\ exited' = TRUE
  /\ UNCHANGED <<run_pc, current_scene_id, scene, scene_cache, instances,
                 next_scene_id, current_level, saved_data, save_file,
                 new_game_fresh>>
  /\ UNCHANGED outside_scene

GetScene == \E ok \in BOOLEAN : get_scene(ok)
SceneReturns == \E tok \in Tokens : scene_returns(tok)
SceneRaises == scene_raises
Cleanup == cleanup
WriteSave == \E file \in SaveFiles : write_save(file)
MainExit == main_exit

\* ---------------------------------------------------------------------
\* Player: resource management
\* ---------------------------------------------------------------------
\* the window the model follows the two counters in
InWindow(c, m) ==
  /\ c <= MaxCoins
  /\ m \in (0 - MaxAmount)..(MAX_MANA + MaxAmount)

\* Player.add_coins(amount)
add_coins(amount) ==
  /\ coins' = Max(0, coins + amount)
  /\ resource_last' = [op |-> "add_coins", ok |-> TRUE]
  /\ InWindow(coins', mana)
  /\ UNCHANGED mana
  /\ UNCHANGED outside_resources

\* Player.spend_coins(amount)
spend_coins(amount) ==
  /\ coins' = IF coins >= amount THEN coins - amount ELSE coins
  /\ resource_last' = [op |-> "spend_coins", ok |-> (coins >= amount)]
  /\ InWindow(coins', mana)
  /\ UNCHANGED mana
  /\ UNCHANGED outside_resources

\* Player.add_mana(amount)
add_mana(amount) ==
  /\ mana' = Min(MAX_MANA, mana + amount)
  /\ resource_last' = [op |-> "add_mana", ok |-> TRUE]
  /\ InWindow(coins, mana')
  /\ UNCHANGED coins
  /\ UNCHANGED outside_resources

\* Player.use_mana(amount)
use_mana(amount) ==
  /\ mana' = IF mana >= amount THEN mana - amount ELSE mana
  /\ resource_last' = [op |-> "use_mana", ok |-> (mana >= amount)]
  /\ InWindow(coins, mana')
  /\ UNCHANGED coins
  /\ UNCHANGED outside_resources

Amounts == (0 - MaxAmount)..MaxAmount

AddCoins == \E amount \in Amounts : add_coins(amount)
SpendCoins == \E amount \in Amounts : spend_coins(amount)
AddMana == \E amount \in Amounts : add_mana(amount)
UseMana == \E amount \in Amounts : use_mana(amount)

\* ---------------------------------------------------------------------
\* DialogOverlay
\* ---------------------------------------------------------------------
DialogEvents == {"space", "return", "escape", "click_left", "other"}

\* DialogOverlay.show
show ==
  /\ overlay_visible' = TRUE
  /\ dialog_last' = [op |-> "show", consumed |-> FALSE,
                     held |-> sound_channel]
  /\ UNCHANGED <<sequence, sound_channel, stray_sounds>>
  /\ UNCHANGED outside_dialog

\* DialogOverlay.hide
hide ==
  LET snd == stop_current_sound(<<sound_channel, stray_sounds>>)
  IN /\ overlay_visible' = FALSE
     /\ sound_channel' = snd[1]
     /\ stray_sounds' = snd[2]
     /\ dialog_last' = [op |-> "hide", consumed |-> FALSE,
                     held |-> sound_channel]
     /\ UNCHANGED sequence
     /\ UNCHANGED outside_dialog

\* DialogOverlay.set_sequence
set_sequence(seq, outcome) ==
  LET snd == IF seq # NoSequence /\ entry_has_sound(seq)
               THEN play_sound(<<sound_channel, stray_sounds>>, outcome)
             ELSE <<sound_channel, stray_sounds>>
  IN /\ snd[2] <= MaxStray
     /\ sequence' = seq
     /\ overlay_visible' = IF seq # NoSequence THEN TRUE ELSE overlay_visible
     /\ sound_channel' = snd[1]
     /\ stray_sounds' = snd[2]
     /\ dialog_last' = [op |-> "set_sequence", consumed |-> FALSE,
                     held |-> sound_channel]
     /\ UNCHANGED outside_dialog

\* DialogOverlay.handle_event; consumed is its return value
handle_event(ev, outcome) ==
  LET snd == <<sound_channel, stray_sounds>>
      res == IF ~overlay_visible \/ sequence = NoSequence
               THEN <<overlay_visible, sequence, snd>>
             ELSE IF ev \in {"space", "return", "click_left"}
               THEN advance_dialog(overlay_visible, sequence, snd, outcome)
             ELSE IF ev = "escape"
               THEN advance_dialog(overlay_visible, skip_to_end(sequence),
                                   snd, outcome)
             ELSE <<overlay_visible, sequence, snd>>
  IN /\ res[3][2] <= MaxStray
     /\ overlay_visible' = res[1]
     /\ sequence' = res[2]
     /\ sound_channel' = res[3][1]
     /\ stray_sounds' = res[3][2]
     /\ dialog_last' = [op |-> ev,
                        consumed |-> overlay_visible /\ sequence # NoSequence,
                        held |-> sound_channel]
     /\ UNCHANGED outside_dialog

\* the mixer: a dialog sound plays out
sound_ends ==
  /\ \/ /\ sound_channel = "busy"
        /\ sound_channel' = "idle"
        /\ UNCHANGED stray_sounds
     \/ /\ stray_sounds > 0
        /\ stray_sounds' = stray_sounds - 1
        /\ UNCHANGED sound_channel
  /\ dialog_last' = [op |-> "sound_ends", consumed |-> FALSE,
                     held |-> sound_channel]
  /\ UNCHANGED <<overlay_visible, sequence>>
  /\ UNCHANGED outside_dialog

Show == show
Hide == hide
SetSequence == \E seq \in Sequences \cup {NoSequence}, outcome \in PlayOutcomes :
                 set_sequence(seq, outcome)
HandleEvent == \E ev \in DialogEvents, outcome \in PlayOutcomes :
                 handle_event(ev, outcome)
SoundEnds == sound_ends

HandleAction == \E action \in PlayerAction, pressed \in BOOLEAN :
                  handle_action(action, pressed)
HandleMouseClick == \E button \in Buttons, t \in now..MaxTime,
                       choice \in light_attack_states :
                      handle_mouse_click(button, t, choice)
CombatMouseClick == \E button \in Buttons, t \in now..MaxCombatTime,
                       choice \in light_attack_states :
                      handle_mouse_click(button, t, choice)
TakeDamage == \E amount \in 0..MaxDamage : take_damage(amount)
Update == \E dt \in 0..MaxDt : update(dt)
GroundContact == \E b \in BOOLEAN : ground_contact(b)

\* Combat and state machine: inputs, clicks, damage and frames.  The player
\* stays airborne as constructed (landing is part of MotionSpec) and clicks
\* arrive early on the clock (the full clock is part of ClickSpec).
Next == HandleAction \/ CombatMouseClick \/ TakeDamage \/ Update

Spec == Init /\ [][Next]_vars

\* Attack input: inputs, clicks over the whole clock and frames, no damage.
ClickNext == HandleAction \/ HandleMouseClick \/ Update

ClickSpec == Init /\ [][ClickNext]_vars

\* Movement and jumping: inputs, frames and the scene's ground contact.
MotionNext == HandleAction \/ Update \/ GroundContact

MotionSpec == Init /\ [][MotionNext]_vars

\* The scene loop: scenes are resolved, run and return tokens until the loop
\* ends or an exception leaves run(); the save file changes under it.
SceneNext ==
  GetScene \/ SceneReturns \/ SceneRaises \/ Cleanup \/ WriteSave \/ MainExit

SceneSpec == SceneInit /\ [][SceneNext]_vars

\* The inventory: the four resource methods with amounts of either sign.
ResourceNext == AddCoins \/ SpendCoins \/ AddMana \/ UseMana

ResourceSpec == Init /\ [][ResourceNext]_vars

\* The dialog overlay: its operations and the mixer playing sounds out.
DialogNext == Show \/ Hide \/ SetSequence \/ HandleEvent \/ SoundEnds

DialogSpec == Init /\ [][DialogNext]_vars

TypeOK ==
  /\ health \in 0..MAX_HEALTH
  /\ current_state \in PlayerState
  /\ move_direction \in {-1, 0, 1}
  /\ last_right_click_time \in 0..MaxTime
  /\ anim.index \in 0..(num_frames - 1)
  /\ anim.elapsed \in 0..(FRAME_DURATION - 1)

\* ---------------------------------------------------------------------
\* Properties
\* ---------------------------------------------------------------------
AttackStates == {ATTACK_LIGHT_1, ATTACK_LIGHT_2, ATTACK_HEAVY}
NonInterruptible == AttackStates \cup {HURT, DEATH}

\* this step is handle_mouse_click(button, t) for the clock value t it leaves
\* in now (a left-click that is accepted ends in the variant it drew)
IsClick(button) ==
  /\ last'.op = "handle_mouse_click"
  /\ handle_mouse_click(button, now', current_state')

\* this step is take_damage(amount)
IsDamage(amount) ==
  /\ last'.op = "take_damage"
  /\ take_damage(amount)

\* this step takes current_state into ATTACK_HEAVY
EntersHeavy == current_state # ATTACK_HEAVY /\ current_state' = ATTACK_HEAVY

\* C1: DEATH is terminal: once current_state is DEATH no input action, mouse
\* click, take_damage call or per-frame update changes it to another state.
C1_DeathIsTerminal ==
  [][current_state = DEATH => current_state' = DEATH]_vars

\* C2: over every sequence of operations health never increases and never
\* goes below 0, and _on_death (which enters DEATH) is invoked exactly once,
\* in the take_damage call that brings health from a positive value to 0.
C2_HealthMonotoneDeathOnce ==
  [][ /\ health' <= health
      /\ health' >= 0
      /\ (on_death_calls' # on_death_calls) <=> (health > 0 /\ health' = 0)
      /\ on_death_calls' # on_death_calls =>
           /\ on_death_calls' = on_death_calls + 1
           /\ TakeDamage
           /\ current_state' = DEATH
      /\ on_death_calls' = (IF health' = 0 THEN 1 ELSE 0) ]_vars

\* C2 witness: a lethal take_damage has just run the death hook once.
C2_Witness ==
  /\ last.op = "take_damage" /\ last.res = "lethal"
  /\ health = 0 /\ on_death_calls = 1 /\ current_state = DEATH

\* C3: while current_state is an attack state, HURT or DEATH and the active
\* animation has not finished, no handle_action and no handle_mouse_click
\* changes current_state.
C3_NonInterruptibleIgnoresInput ==
  [][ ( /\ current_state \in NonInterruptible
        /\ ~is_finished(anim, num_frames)
        /\ HandleAction \/ HandleMouseClick )
      => current_state' = current_state ]_vars

C5_SingleRightClickNeverFires ==
  [][ ( /\ current_state \in {IDLE, WALK, RUN}
        /\ \/ last_right_click_time = 0
           \/ now' - last_right_click_time > DOUBLE_CLICK_THRESHOLD_MS
        /\ IsClick(3) )
      => /\ ~EntersHeavy
         /\ last_right_click_time' = now' ]_vars

\* C6: from IDLE, WALK or RUN a left-click always changes current_state to
\* ATTACK_LIGHT_1 or ATTACK_LIGHT_2 and never to any other state.
C6_LeftClickLightAttack ==
  [][ ( /\ current_state \in {IDLE, WALK, RUN}
        /\ IsClick(1) )
      => current_state' \in {ATTACK_LIGHT_1, ATTACK_LIGHT_2} ]_vars

\* C6 witness: a left-click has just started the second light-attack variant.
C6_Witness ==
  /\ last.op = "handle_mouse_click" /\ last.res = "light"
  /\ current_state = ATTACK_LIGHT_2 /\ anim.index = 0 /\ anim.elapsed = 0

C8_ChipDamage ==
  [][ \A amount \in 1..MaxDamage :
        ( /\ is_blocking /\ health > 0 /\ ~invulnerable
          /\ IsDamage(amount) )
        => /\ health' =
                Max(0, health - Max(1, (amount * BLOCK_DAMAGE_REDUCTION_NUM)
                                         \div BLOCK_DAMAGE_REDUCTION_DEN))
           /\ health - health' >= 1 ]_vars

\* C8 witness: a blocked hit has just taken health while the block is held.
C8_Witness ==
  /\ last.op = "take_damage" /\ last.res = "chip"
  /\ is_blocking /\ health > 0 /\ health < MAX_HEALTH

\* C9: take_damage on a living, non-invulnerable player that leaves
\* health > 0 ends in HURT whatever state was active; lethal or ignored
\* (invulnerable) damage never enters HURT.
C9_NonLethalDamageHurts ==
  [][ (\E amount \in 0..MaxDamage : IsDamage(amount))
      => /\ (health > 0 /\ ~invulnerable /\ health' > 0)
            => current_state' = HURT
         /\ ((invulnerable \/ health' = 0) /\ current_state # HURT)
            => current_state' # HURT ]_vars

\* C9 witness: non-lethal damage has just put the living player in HURT.
C9_Witness ==
  /\ last.op = "take_damage" /\ last.res \in {"hurt", "chip"}
  /\ current_state = HURT /\ health > 0 /\ invulnerable

\* C10 (as stated): once current_state is BLOCK it changes only as the effect
\* of a BLOCK-released input; no update, other input, click or damage event
\* takes the player out of BLOCK.
C10_BlockExitOnlyByRelease ==
  [][ (current_state = BLOCK /\ current_state' # BLOCK)
      => handle_action("BLOCK", FALSE) ]_vars

\* C10 (amended): current_state leaves BLOCK only through a BLOCK-released
\* input, which enters IDLE, or through take_damage, which enters HURT or
\* DEATH; no update, other input or mouse click takes the player out of BLOCK.
C10_BlockExitByReleaseOrDamage ==
  [][ (current_state = BLOCK /\ current_state' # BLOCK)
      => \/ handle_action("BLOCK", FALSE) /\ current_state' = IDLE
         \/ TakeDamage /\ current_state' \in {HURT, DEATH} ]_vars

\* C10 witness: a frame with a movement key held has left the player in BLOCK.
C10_Witness ==
  /\ last.op = "update" /\ current_state = BLOCK
  /\ is_blocking /\ move_direction # 0

\* this step is handle_action(action, pressed)
IsAction(action, pressed) ==
  /\ last'.op = "handle_action"
  /\ handle_action(action, pressed)

Locomotion == {IDLE, WALK, RUN}

\* C11: a BLOCK-pressed input sets is_blocking, clears a pending jump request
\* and makes current_state BLOCK; a BLOCK-released input clears is_blocking
\* and changes current_state, to IDLE, exactly when it was BLOCK.
C11_BlockPressRelease ==
  [][ /\ IsAction("BLOCK", TRUE) =>
           is_blocking' /\ ~jump_requested' /\ current_state' = BLOCK
      /\ IsAction("BLOCK", FALSE) =>
           /\ ~is_blocking'
           /\ current_state' = (IF current_state = BLOCK THEN IDLE
                                 ELSE current_state) ]_vars

\* C11 witness: a BLOCK press has just cancelled a pending jump request.
C11_Witness ==
  /\ last.op = "handle_action" /\ last.res = "jump_cancelled"
  /\ is_blocking /\ ~jump_requested /\ current_state = BLOCK

\* C12: an update sets the vertical velocity to the jump speed and clears
\* on_ground only if a jump request is pending and the player is grounded and
\* not blocking at that update; the request is false right after that update;
\* and a request only arises from a JUMP press made while grounded and not
\* blocking.
C12_JumpGating ==
  [][ /\ (last'.op = "update"
            /\ ((on_ground /\ ~on_ground')
                \/ (velocity_y' # velocity_y /\ velocity_y' = "jump")))
          => /\ jump_requested /\ on_ground /\ ~is_blocking
             /\ velocity_y' = "jump" /\ ~on_ground' /\ ~jump_requested'
      /\ (~jump_requested /\ jump_requested')
          => /\ on_ground /\ ~is_blocking
             /\ IsAction("JUMP", TRUE) ]_vars

\* C12 witness: an update has just performed the requested jump.
C12_Witness ==
  /\ last.op = "update" /\ velocity_y = "jump"
  /\ ~on_ground /\ ~jump_requested

\* C13: jump_requested is false after every per-frame update.
C13_JumpRequestConsumed ==
  [][last'.op = "update" => ~jump_requested']_vars

\* C14: move_direction is always -1, 0 or 1; pressing MOVE_LEFT or MOVE_RIGHT
\* sets it to -1 or 1; releasing one of them sets it to 0 only if that
\* direction is the active one and otherwise leaves it unchanged.
C14_MoveDirection ==
  [][ /\ move_direction \in {-1, 0, 1}
      /\ IsAction("MOVE_LEFT", TRUE) => move_direction' = -1
      /\ IsAction("MOVE_RIGHT", TRUE) => move_direction' = 1
      /\ IsAction("MOVE_LEFT", FALSE) =>
           move_direction' = (IF move_direction = -1 THEN 0
                              ELSE move_direction)
      /\ IsAction("MOVE_RIGHT", FALSE) =>
           move_direction' = (IF move_direction = 1 THEN 0
                              ELSE move_direction)
      /\ move_direction' \in {-1, 0, 1} ]_vars

\* C14 witness: the key opposite to the active direction has just been
\* released and the movement goes on.
C14_Witness ==
  /\ last.op = "handle_action" /\ last.res = "inactive_release"
  /\ move_direction # 0

\* C15: after every update that starts in IDLE, WALK or RUN, current_state is
\* RUN if move_direction # 0 and is_sprinting, WALK if move_direction # 0 and
\* not is_sprinting, IDLE if move_direction = 0; an update that starts in any
\* other state never resolves to WALK or RUN.
C15_LocomotionResolution ==
  [][ last'.op = "update" =>
        /\ (current_state \in Locomotion =>
              current_state' = (IF move_direction # 0
                                  THEN (IF is_sprinting THEN RUN ELSE WALK)
                                ELSE IDLE))
        /\ (current_state \notin Locomotion =>
              current_state' \notin {WALK, RUN}) ]_vars

\* C15 witness: an update has resolved a held direction with sprint to RUN.
C15_Witness ==
  /\ last.op = "update" /\ current_state = RUN
  /\ move_direction # 0 /\ is_sprinting

\* C16: an update that starts in an attack state or HURT leaves current_state
\* unchanged while the animation is not finished, whatever move_direction and
\* is_sprinting are, and enters IDLE when it finds the animation finished.
C16_AttackHurtUntilFinished ==
  [][ (last'.op = "update" /\ current_state \in AttackStates \cup {HURT}) =>
        current_state' = (IF is_finished(anim, num_frames) THEN IDLE
                          ELSE current_state) ]_vars

\* C16 witness: an update with a sprinting movement held has left the heavy
\* attack, whose animation is not finished, in place.
C16_Witness ==
  /\ last.op = "update" /\ current_state = ATTACK_HEAVY
  /\ move_direction # 0 /\ is_sprinting
  /\ ~is_finished(anim, num_frames)

\* this step resolves the scene id scene_id at the head of the run loop
IsGetScene(scene_id) ==
  /\ run_pc = "get_scene"
  /\ current_scene_id = scene_id
  /\ run_pc' \in {"scene_run", "SceneError"}

\* the save file holds no usable save: missing, short or unparsable
NoSave(file) ==
  \/ ~file.exists
  \/ Len(file.data) < 3
  \/ ~parses(file.data)

KnownIds == RegisteredScenes \cup SpecialScenes

\* C17: a new_game request leaves the controller with no saved data and the
\* starting level, and the continue request that follows it, with no save
\* written in between, constructs the game scene with no saved data and the
\* starting level.
C17_ContinueAfterNewGameDefaults ==
  [][ /\ IsGetScene("new_game") =>
           saved_data' = <<>> /\ current_level' = STARTING_LEVEL
      /\ (IsGetScene("continue") /\ new_game_fresh /\ run_pc' = "scene_run") =>
           /\ scene'.cls = "game"
           /\ scene'.saved_data = <<>>
           /\ scene'.level_id = STARTING_LEVEL ]_vars

\* C18: a continue request that finds the save file missing, short or
\* unparsable leaves the controller with no saved data and the starting
\* level, whatever it held before.
C18_BadSaveResetsDefaults ==
  [][ (IsGetScene("continue") /\ NoSave(save_file)) =>
        saved_data' = <<>> /\ current_level' = STARTING_LEVEL ]_vars

\* C19: a continue request that loads a well-formed save yields its three
\* values as saved data and, as level, the fourth field if there is one and
\* the starting level if there is none, whatever level was held before.
C19_LoadedLevel ==
  [][ (IsGetScene("continue") /\ ~NoSave(save_file)) =>
        /\ saved_data' = <<parse_float(save_file.data[1])[2],
                           parse_float(save_file.data[2])[2],
                           parse_int(save_file.data[3])[2]>>
        /\ current_level' = (IF Len(save_file.data) >= 4
                               THEN save_file.data[4]
                             ELSE STARTING_LEVEL) ]_vars

\* C20: when the id to resolve is neither registered nor special, run raises
\* SceneError with no scene bound and nothing follows but the program's exit;
\* a scene that runs was resolved from a known id and is of a registered
\* class.
C20_UnknownSceneRaises ==
  [][ /\ (run_pc = "get_scene" /\ loop_continues(current_scene_id)
            /\ current_scene_id \notin KnownIds)
          => run_pc' = "SceneError" /\ scene' = NoScene
      /\ run_pc = "SceneError" =>
           run_pc' = "SceneError" /\ scene' = scene /\ main_exit
      /\ run_pc' = "scene_run" =>
           /\ current_scene_id' \in KnownIds
           /\ scene'.cls \in RegisteredScenes ]_vars

\* C20 witness: run has raised SceneError on an id nobody registered.
C20_Witness ==
  /\ run_pc = "SceneError"
  /\ current_scene_id = "credits"
  /\ scene = NoScene

\* ids whose every request constructs a scene
FreshScenes == {"game", "dialog", "new_game", "continue"}

\* C21: a request for menu or settings that finds a cache entry returns that
\* entry's instance and constructs nothing; one that finds none, like every
\* request for game, dialog, new_game or continue, returns a newly
\* constructed instance; an entry stays as it is until cleanup, there is at
\* most one per id, and only menu and settings ever have one.
C21_CacheIdentity ==
  [][ /\ \A id \in CachedScenes :
           (IsGetScene(id) /\ run_pc' = "scene_run") =>
             IF cache_has(scene_cache, id)
               THEN /\ scene'.instance = cache_get(scene_cache, id).instance
                    /\ instances' = instances
               ELSE /\ scene'.instance = instances + 1
                    /\ instances' = instances + 1
                    /\ <<id, instances + 1, id>> \in scene_cache'
      /\ \A id \in FreshScenes :
           (IsGetScene(id) /\ run_pc' = "scene_run") =>
             /\ scene'.instance = instances + 1
             /\ instances' = instances + 1
      /\ run_pc' # "returned" => scene_cache \subseteq scene_cache'
      /\ \A e \in scene_cache' : e[1] \in CachedScenes
      /\ \A e, f \in scene_cache' : e[1] = f[1] => e = f ]_vars

\* C21 witness: the menu is requested again after other scenes were built and
\* the first instance runs.
C21_Witness ==
  /\ run_pc = "scene_run" /\ current_scene_id = "menu"
  /\ scene.instance = 1 /\ instances >= 2

\* C22: the id that follows a scene's token is None for exit, None and the
\* empty token, menu for back, game_over and level_complete, and the token
\* itself for every other token, whatever scene returned it.
C22_TransitionTranslation ==
  [][ (run_pc = "scene_run" /\ run_pc' = "get_scene") =>
        /\ next_scene_id' \in {"exit", "", None} => current_scene_id' = None
        /\ next_scene_id' = "back" => current_scene_id' = "menu"
        /\ next_scene_id' \in {"game_over", "level_complete"} =>
             current_scene_id' = "menu"
        /\ next_scene_id' \in {"menu", "settings", "new_game", "continue",
                               "game"} =>
             current_scene_id' = next_scene_id'
        /\ next_scene_id' \notin {"exit", "", None, "back", "game_over",
                                  "level_complete"} =>
             current_scene_id' = next_scene_id' ]_vars

\* C22 witness: a game scene has returned game_over and the menu is next.
C22_Witness ==
  /\ run_pc = "get_scene" /\ scene.cls = "game"
  /\ next_scene_id = "game_over" /\ current_scene_id = "menu"

\* C23: the first id resolved is menu; run returns exactly from the loop head
\* with an id that is None, empty or exit, and that step empties the cache
\* and saves the configuration; neither is done earlier by run, and once run
\* has returned no scene is resolved or run.
C23_LoopTermination ==
  [][ /\ (run_pc = "get_scene" /\ instances = 0 /\ scene = NoScene) =>
           current_scene_id = "menu"
      /\ (run_pc # "returned" /\ run_pc' = "returned") =>
           /\ run_pc = "get_scene"
           /\ current_scene_id \in {None, "", "exit"}
           /\ scene_cache' = {}
           /\ config_saved'
      /\ (run_pc = "get_scene" /\ current_scene_id \in {None, "", "exit"}) =>
           run_pc' = "returned"
      /\ (run_pc = "get_scene" /\ current_scene_id \notin {None, "", "exit"}) =>
           run_pc' # "returned"
      /\ (~config_saved /\ config_saved') => (run_pc' = "returned" \/ exited')
      /\ run_pc = "returned" =>
           run_pc' = "returned" /\ scene' = scene /\ instances' = instances
    ]_vars

\* C23 witness: run has returned from its loop, the cache is empty and the
\* configuration saved, before main's own exit.
C23_Witness ==
  /\ run_pc = "returned" /\ ~exited
  /\ instances >= 1 /\ scene_cache = {} /\ config_saved

\* C24: when the program has exited, by whichever path run ended, the
\* configuration has been saved and the scene cache is empty.
C24_CleanupOnEveryExit ==
  exited => (config_saved /\ scene_cache = {})

\* C26: after any sequence of add_coins, spend_coins, add_mana and use_mana
\* calls with amounts of either sign, coins >= 0 and 0 <= mana <= MAX_MANA.
C26_ResourceBounds ==
  coins >= 0 /\ mana >= 0 /\ mana <= MAX_MANA

\* C27: after every update, a grounded player has vertical velocity and
\* acceleration zero, an airborne one has gravity as vertical acceleration,
\* and an update that validated a jump leaves the player airborne with the
\* jump speed as vertical velocity.
C27_VerticalPhysics ==
  [][ last'.op = "update" =>
        /\ on_ground' => (velocity_y' = "zero" /\ acceleration_y' = "zero")
        /\ ~on_ground' => acceleration_y' = "gravity"
        /\ jump_validated(jump_requested, on_ground, is_blocking) =>
             (velocity_y' = "jump" /\ ~on_ground') ]_vars

\* C27 witness: an update has left the player, who jumped, airborne
\* under gravity at jump speed.
C27_Witness ==
  /\ last.op = "update" /\ ~on_ground
  /\ velocity_y = "jump" /\ acceleration_y = "gravity"

\* the states whose animation plays once
OneShot == AttackStates \cup {HURT}

\* a click stamped with the clock as it stands
ImmediateMouseClick == \E button \in Buttons, choice \in light_attack_states :
                         handle_mouse_click(button, now, choice)

\* input and damage arrive only outside the attack and hurt states
QuietInput ==
  /\ current_state \notin OneShot
  /\ (HandleAction \/ ImmediateMouseClick \/ TakeDamage)

\* a frame with time passing
PositiveUpdate == \E dt \in 1..MaxDt : update(dt)

\* Frames keep coming: the scene's frame pump calls update once per
\* displayed frame with the time elapsed since the last one.
QuietNext == QuietInput \/ Update

QuietSpec == Init /\ [][QuietNext]_vars /\ WF_vars(PositiveUpdate)

\* C28: a player in an attack state or HURT who receives no further input or
\* damage, while frames with positive deltaTime keep coming, eventually is in
\* IDLE.
C28_OneShotReachesIdle ==
  (current_state \in OneShot) ~> (current_state = IDLE)

\* C28 witness: a frame has taken the player, hurt and still invulnerable,
\* from HURT to IDLE.
C28_Witness ==
  /\ last.op = "update" /\ current_state = IDLE
  /\ health < MAX_HEALTH /\ invulnerable

\* playback of state s from its first frame
Restarted(s) == [state |-> s, index |-> 0, elapsed |-> 0]

\* C30: the animation set's active state is always current_state; an input,
\* click or damage that changes current_state leaves playback at frame 0 with
\* no elapsed time and one that does not change it leaves playback alone; in
\* an update the state machine does the same before the frame's time is
\* added to the playback it left.
C30_AnimationFollowsState ==
  [][ /\ anim.state = current_state
      /\ anim'.state = current_state'
      /\ last'.op # "update" =>
           anim' = (IF current_state' # current_state
                      THEN Restarted(current_state') ELSE anim)
      /\ last'.op = "update" =>
           LET sm == update_state_machine(current_state, anim, num_frames,
                                          move_direction, is_sprinting)
               played == IF current_state' # current_state
                           THEN Restarted(current_state') ELSE anim
           IN /\ sm[1] = current_state'
              /\ sm[2] = played
              /\ \E dt \in 0..MaxDt :
                   anim' = animation_update(played, num_frames, dt) ]_vars

\* C30 witness: a click made with a direction held has started a light
\* attack, which plays from its first frame.
C30_Witness ==
  /\ last.op = "handle_mouse_click" /\ last.res = "light"
  /\ current_state \in {ATTACK_LIGHT_1, ATTACK_LIGHT_2}
  /\ anim = Restarted(current_state)
  /\ move_direction # 0

\* ---------------------------------------------------------------------
\* The dialog overlay
\* ---------------------------------------------------------------------
\* C25: at most one dialog sound plays at a time: never are two dialog sounds
\* playing simultaneously, whatever the sequence of set_sequence, advance
\* inputs, skip and hide.
C25_OneDialogSound == Playing <= 1

AdvanceInputs == {"space", "return", "click_left"}

\* C29: an advance input (Space, Return, left button) on a visible overlay
\* whose sequence is finished leaves the cursor where it is, stops the
\* current sound, hides the overlay and drops the sequence; with the sequence
\* dropped handle_event returns False and changes nothing, and
\* DialogRenderer.is_finished() is true; a visible overlay with a sequence
\* returns True for every event.
C29_FinishedAdvanceCloses ==
  [][dialog_last'.op \in DialogEvents =>
       /\ (/\ overlay_visible /\ sequence # NoSequence
           /\ sequence_is_finished(sequence)
           /\ dialog_last'.op \in AdvanceInputs)
            => /\ sequence' = NoSequence
               /\ ~overlay_visible'
               /\ sound_channel' = "none"
               /\ stray_sounds' = stray_sounds
               /\ renderer_is_finished'
       /\ sequence = NoSequence
            => /\ ~dialog_last'.consumed
               /\ UNCHANGED <<overlay_visible, sequence, sound_channel,
                              stray_sounds>>
               /\ renderer_is_finished'
       /\ (overlay_visible /\ sequence # NoSequence)
            => dialog_last'.consumed]_vars

\* an advance input has closed a finished sequence whose sound was still
\* playing, and that sound is stopped
C29_Witness ==
  /\ dialog_last.op \in AdvanceInputs
  /\ dialog_last.consumed
  /\ dialog_last.held = "busy"
  /\ sequence = NoSequence
  /\ ~overlay_visible
  /\ Playing = 0

\* ---------------------------------------------------------------------
\* Blocking
\* ---------------------------------------------------------------------
\* C31: is_blocking is true exactly while the BLOCK input is held: only BLOCK
\* press and release events change it; every other action, mouse clicks,
\* damage and updates leave it unchanged, so current_state = BLOCK always
\* implies is_blocking.
C31_BlockingFollowsBlockInput ==
  [][ /\ is_blocking' # is_blocking
           => /\ last'.op = "handle_action"
              /\ handle_action("BLOCK", is_blocking')
      /\ current_state' = BLOCK => is_blocking' ]_vars

\* health removed by Character.take_damage(amount) from the current state
unblocked_loss(amount) ==
  health - character_take_damage(health, invulnerable, invulnerable_timer,
                                 amount).health

\* C32: blocking never increases damage: for every amount >= 0, take_damage
\* on a blocking, living, non-invulnerable player removes no more health than
\* the same call would remove from the same state without the block.
C32_BlockingNeverIncreasesDamage ==
  [][ \A amount \in 0..MaxDamage :
        ( /\ is_blocking /\ health > 0 /\ ~invulnerable
          /\ IsDamage(amount) )
        => health - health' <= unblocked_loss(amount) ]_vars

====
